---- MODULE Spec2Model ----
(***************************************************************************)
(* A model of the resume-rag core: the Generator (app/services/            *)
(* generation.py), the Chunker and ingest_resume (app/services/            *)
(* ingestion.py), the Retriever (app/services/retrieval.py) and the        *)
(* tailor_resume pipeline (app/api/tailor.py).                             *)
(*                                                                         *)
(* Text is modelled at the level of characters: a Python str is a sequence *)
(* of one-character strings.  The bullet character U+2022 is written       *)
(* "BULLET" (one element of the sequence, i.e. one character).             *)
(***************************************************************************)
EXTENDS Integers, Sequences, FiniteSets, TLC

VARIABLES
    \* ---- ResumeGenerator.rewrite_chunks ----
    num_chunks,        \* len(chunks), the chunks supplied to the call
    job_description,   \* the job_description argument
    gen_pc,            \* position of the call: idle, start, calling, returned, ValueError, RuntimeError
    api_calls,         \* number of client.chat.completions.create invocations
    model_outcome,     \* what the client call did: none, raised, returned
    generated_text,    \* response.choices[0].message.content
    all_cited_chunks,  \* the citation list returned by _parse_generated_response
    tailored_bullets,  \* GenerationResult.tailored_bullets
    cited_chunks,      \* GenerationResult.cited_chunks
    \* ---- chunk_resume_text ----
    text,              \* the text argument
    max_chunk_size,    \* the max_chunk_size argument
    chunk_pc,          \* position: idle, start, sections, sentences, done
    cleaned_text,      \* clean_text(text)
    sections,          \* the sections still to be visited by the outer loop
    sentences,         \* the sentences still to be visited by the inner loop
    current_chunk,     \* the running sentence buffer
    current_word_count,\* its running word count
    chunks,            \* the chunks emitted so far
    chunk_pass,        \* 1, or 2 when the text is the joined output of pass 1
    first_chunks,      \* the chunks pass 1 returned (empty during pass 1)
    \* ---- the database (resumes and resume_chunks tables) ----
    resumes,           \* ids of the committed rows of table resumes
    resume_chunks,     \* committed rows of table resume_chunks, in id order
    \* ---- retrieve_relevant_chunks ----
    retr_job_description, \* the job_description argument
    resume_id,         \* the resume_id argument (NoneId = search all)
    limit,             \* the limit in effect
    distance_threshold,\* the distance_threshold in effect
    database_url,      \* which backend DATABASE_URL names: postgresql or sqlite
    similarity_metric, \* config.SIMILARITY_METRIC
    embedding_dim,     \* config.EMBEDDING_DIM
    retr_pc,           \* idle, start, encoding, searching, returned, RuntimeError
    retr_cause,        \* the exception wrapped by the except clause ("none" if none)
    encode_calls,      \* number of embedder.encode_single calls
    execute_calls,     \* number of db.execute calls
    jd_embedding,      \* the query vector
    rows,              \* result.fetchall()
    retrieval_results, \* the list returned
    \* ---- ingest_resume ----
    resume_text,       \* the resume_text argument
    ingest_pc,         \* idle, start, chunking, encoding, committing, returned, raised
    session_resumes,   \* resume ids flushed in the open transaction
    session_chunks,    \* chunk rows added in the open transaction
    new_resume_id,     \* resume.id after the flush (0 before)
    embeddings,        \* what embedder.encode(chunks) returned
    \* ---- tailor_resume ----
    request,           \* the TailorRequest
    tailor_pc,         \* idle, start, retrieving, generating, done, failed
    status_code,       \* HTTP status of the response (0 while running)
    \* ---- get_generator (module global and its concurrent callers) ----
    generator_instance,\* the global _generator_instance (NoInstance = None)
    thread_pc,         \* per caller: idle, constructing, assigning, returning,
                       \* returned, raised
    thread_local,      \* per caller: the ResumeGenerator() it built, not yet stored
    thread_result,     \* per caller: the instance get_generator returned
    constructions      \* number of ResumeGenerator objects constructed so far

genVars == <<num_chunks, job_description, gen_pc, api_calls, model_outcome,
             generated_text, all_cited_chunks, tailored_bullets, cited_chunks>>
chunkVars == <<text, max_chunk_size, chunk_pc, cleaned_text, sections, sentences,
               current_chunk, current_word_count, chunks, chunk_pass,
               first_chunks>>
storeVars == <<resumes, resume_chunks>>
retrVars == <<retr_job_description, resume_id, limit, distance_threshold,
              database_url, similarity_metric, embedding_dim, retr_pc,
              retr_cause, encode_calls, execute_calls, jd_embedding, rows,
              retrieval_results>>
ingestVars == <<resume_text, ingest_pc, session_resumes, session_chunks,
                new_resume_id, embeddings>>
tailorVars == <<request, tailor_pc, status_code>>
singletonVars == <<generator_instance, thread_pc, thread_local, thread_result,
                   constructions>>
vars == <<genVars, chunkVars, storeVars, retrVars, ingestVars, tailorVars,
          singletonVars>>

(***************************************************************************)
(* Characters and the Python str operations the code uses.                 *)
(***************************************************************************)
Upper == {"A", "B", "C", "D", "E", "F", "G", "H", "I", "J", "K", "L", "M",
          "N", "O", "P", "Q", "R", "S", "T", "U", "V", "W", "X", "Y", "Z"}
Lower == {"a", "b", "c", "d", "e", "f", "g", "h", "i", "j", "k", "l", "m",
          "n", "o", "p", "q", "r", "s", "t", "u", "v", "w", "x", "y", "z"}
Digits == <<"0", "1", "2", "3", "4", "5", "6", "7", "8", "9">>
DigitChars == {Digits[i] : i \in DOMAIN Digits}
Whitespace == {" ", "\t", "\n", "\r"}

Range(s) == {s[i] : i \in DOMAIN s}

\* resume_id=None: the value of a resume id argument that names no resume.
NoneId == 0

\* The least element of a non-empty set of integers.
Least(S) == CHOOSE k \in S : \A j \in S : k <= j

\* s[from-1:] in Python terms: the suffix of s starting at index from.
Suffix(s, from) == SubSeq(s, from, Len(s))

RECURSIVE LStrip(_)
LStrip(s) ==
    IF s # <<>> /\ s[1] \in Whitespace THEN LStrip(Tail(s)) ELSE s

RECURSIVE RStrip(_)
RStrip(s) ==
    IF s # <<>> /\ s[Len(s)] \in Whitespace
    THEN RStrip(SubSeq(s, 1, Len(s) - 1)) ELSE s

\* str.strip()
Strip(s) == RStrip(LStrip(s))

\* str.split(sep) for a one-character separator.
RECURSIVE SplitOn(_, _)
SplitOn(s, sep) ==
    IF \E i \in DOMAIN s : s[i] = sep
    THEN LET i == CHOOSE k \in DOMAIN s :
                      s[k] = sep /\ \A j \in 1..(k - 1) : s[j] # sep
         IN <<SubSeq(s, 1, i - 1)>> \o SplitOn(Suffix(s, i + 1), sep)
    ELSE <<s>>

\* str.split() with no argument: the maximal runs of non-whitespace.
RECURSIVE SplitWords(_)
SplitWords(s) ==
    LET t == LStrip(s)
    IN IF t = <<>> THEN <<>>
       ELSE LET stops == {k \in DOMAIN t : t[k] \in Whitespace}
                e == IF stops = {} THEN Len(t) + 1 ELSE Least(stops)
            IN <<SubSeq(t, 1, e - 1)>> \o SplitWords(Suffix(t, e))

\* len(s.split())
WordCount(s) == Len(SplitWords(s))

\* sep.join(parts)
RECURSIVE Join(_, _)
Join(parts, sep) ==
    IF parts = <<>> THEN <<>>
    ELSE IF Len(parts) = 1 THEN parts[1]
    ELSE parts[1] \o sep \o Join(Tail(parts), sep)

\* int(c) for a string of decimal digits.
DigitValue(c) == CHOOSE d \in 0..9 : Digits[d + 1] = c

RECURSIVE ToInt(_)
ToInt(digs) ==
    IF digs = <<>> THEN 0
    ELSE 10 * ToInt(SubSeq(digs, 1, Len(digs) - 1)) + DigitValue(digs[Len(digs)])

(***************************************************************************)
(* ResumeGenerator._parse_generated_response                               *)
(***************************************************************************)
BulletMarkers == {"BULLET", "-", "*"}

\* line.startswith(BULLET) or line.startswith('-') or line.startswith('*')
StartsWithBullet(line) == line # <<>> /\ line[1] \in BulletMarkers

\* The end of the greedy run [set]+ that starts at index j of s: the first
\* index >= j that holds no character of set (Len(s) + 1 if there is none).
RECURSIVE RunEnd(_, _, _)
RunEnd(s, j, set) ==
    IF j <= Len(s) /\ s[j] \in set THEN RunEnd(s, j + 1, set) ELSE j

\* The end of the greedy run \d+ that starts at j.
DigitRunEnd(s, j) == RunEnd(s, j, DigitChars)

\* re.findall(r'\[C(\d+)\]', line) scanning from index i: the digit strings of
\* the non-overlapping matches, left to right.
RECURSIVE FindCitationsFrom(_, _)
FindCitationsFrom(line, i) ==
    IF i > Len(line) THEN <<>>
    ELSE LET j == DigitRunEnd(line, i + 2)
         IN IF /\ line[i] = "["
               /\ i + 1 <= Len(line) /\ line[i + 1] = "C"
               /\ j > i + 2
               /\ j <= Len(line) /\ line[j] = "]"
            THEN <<SubSeq(line, i + 2, j - 1)>> \o FindCitationsFrom(line, j + 1)
            ELSE FindCitationsFrom(line, i + 1)

FindCitations(line) == FindCitationsFrom(line, 1)

\* The filter of the list comprehension: int(c) <= len(chunks).
CitationInRangeOffByOne(c, n) == c <= n + 1
CitationInRange(c, n) == c <= n

\* [int(c) - 1 for c in citations if int(c) <= len(chunks)]
RECURSIVE ChunkIndices(_, _)
ChunkIndices(citations, n) ==
    IF citations = <<>> THEN <<>>
    ELSE LET c == ToInt(citations[1])
         IN (IF CitationInRange(c, n) THEN <<c - 1>> ELSE <<>>)
            \o ChunkIndices(Tail(citations), n)

\* The first loop: bullet lines that carry at least one citation tag.
RECURSIVE ParseBulletLines(_, _)
ParseBulletLines(lines, n) ==
    IF lines = <<>> THEN [bullets |-> <<>>, cited |-> <<>>]
    ELSE LET line == Strip(lines[1])
             rest == ParseBulletLines(Tail(lines), n)
             citations == FindCitations(line)
         IN IF StartsWithBullet(line) /\ citations # <<>>
            THEN [bullets |-> <<line>> \o rest.bullets,
                  cited |-> ChunkIndices(citations, n) \o rest.cited]
            ELSE rest

\* The length floor of the fallback loop.
FallbackLineFloor == 10

\* The second loop, run when the first found no bullet: every stripped line
\* longer than the floor becomes a bullet attributed to chunk 0.
RECURSIVE ParseFallbackLines(_)
ParseFallbackLines(lines) ==
    IF lines = <<>> THEN [bullets |-> <<>>, cited |-> <<>>]
    ELSE LET line == Strip(lines[1])
             rest == ParseFallbackLines(Tail(lines))
         IN IF line # <<>> /\ Len(line) > FallbackLineFloor
            THEN [bullets |-> <<<<"BULLET", " ">> \o line>> \o rest.bullets,
                  cited |-> <<0>> \o rest.cited]
            ELSE rest

parse_generated_response(response, n) ==
    LET lines == SplitOn(Strip(response), "\n")
        first == ParseBulletLines(lines, n)
    IN IF first.bullets = <<>> THEN ParseFallbackLines(lines) ELSE first

\* list(dict.fromkeys(cited_chunks)): keeps the first occurrence of each value.
DedupNone(s) == s
RECURSIVE Dedup(_)
Dedup(s) ==
    IF s = <<>> THEN <<>>
    ELSE LET init == Dedup(SubSeq(s, 1, Len(s) - 1))
             x == s[Len(s)]
         IN IF x \in Range(init) THEN init ELSE Append(init, x)

(***************************************************************************)
(* The idle states of the components.                                      *)
(***************************************************************************)
\* No rewrite_chunks call is in progress (the state of the Generator in the
\* specifications of the other components).
GenIdle ==
    /\ num_chunks = 0
    /\ job_description = <<>>
    /\ gen_pc = "idle"
    /\ api_calls = 0
    /\ model_outcome = "none"
    /\ generated_text = <<>>
    /\ all_cited_chunks = <<>>
    /\ tailored_bullets = <<>>
    /\ cited_chunks = <<>>

\* No chunk_resume_text call is in progress.
ChunkIdle ==
    /\ text = <<>>
    /\ max_chunk_size = 0
    /\ chunk_pc = "idle"
    /\ cleaned_text = <<>>
    /\ sections = <<>>
    /\ sentences = <<>>
    /\ current_chunk = <<>>
    /\ current_word_count = 0
    /\ chunks = <<>>
    /\ chunk_pass = 1
    /\ first_chunks = <<>>

\* The database holds no row (the specifications of the Generator and the
\* Chunker do not touch it).
StoreEmpty ==
    /\ resumes = {}
    /\ resume_chunks = <<>>

\* The length of the vectors of all-MiniLM-L6-v2, the default embedding model
\* (384 in the source), which is also the default of config.EMBEDDING_DIM.
Dim == 2

\* No retrieve_relevant_chunks call is in progress.
RetrIdle ==
    /\ retr_job_description = <<>>
    /\ resume_id = NoneId
    /\ limit = 0
    /\ distance_threshold = 0
    /\ database_url = "sqlite"
    /\ similarity_metric = "cosine"
    /\ embedding_dim = Dim
    /\ retr_pc = "idle"
    /\ retr_cause = "none"
    /\ encode_calls = 0
    /\ execute_calls = 0
    /\ jd_embedding = <<>>
    /\ rows = <<>>
    /\ retrieval_results = <<>>

\* No ingest_resume call is in progress.
IngestIdle ==
    /\ resume_text = <<>>
    /\ ingest_pc = "idle"
    /\ session_resumes = {}
    /\ session_chunks = <<>>
    /\ new_resume_id = 0
    /\ embeddings = <<>>

\* No tailor_resume request is being served.
TailorIdle ==
    /\ request = [resume_id |-> 0, jd_text |-> <<>>, retrieval_limit |-> 0]
    /\ tailor_pc = "idle"
    /\ status_code = 0

\* _generator_instance = None at import (generation.py:271).
NoInstance == 0

\* Nobody is calling get_generator and the global still holds None.
SingletonIdle ==
    /\ generator_instance = NoInstance
    /\ thread_pc = <<>>
    /\ thread_local = <<>>
    /\ thread_result = <<>>
    /\ constructions = 0

(***************************************************************************)
(* clean_text                                                              *)
(***************************************************************************)
\* re.sub(r'[set]+', repl, s) for a one-character replacement: the first
\* character of every maximal run of characters of set becomes repl, the
\* others of the run are removed ("DROP" marks them; it is no character).
CollapseRuns(s, set, repl) ==
    LET marked == [i \in DOMAIN s |->
                      IF s[i] \notin set THEN s[i]
                      ELSE IF i > 1 /\ s[i - 1] \in set THEN "DROP" ELSE repl]
    IN SelectSeq(marked, LAMBDA c : c # "DROP")

\* The characters the class [^\w\s\.\,\;\:\!\?\-\(\)\n@] does not match.
AllowedChars ==
    Upper \cup Lower \cup DigitChars \cup {"_"} \cup Whitespace
    \cup {".", ",", ";", ":", "!", "?", "-", "(", ")", "@"}

\* re.sub(r'[^\w\s\.\,\;\:\!\?\-\(\)\n@]', ' ', s)
ReplaceDisallowed(s) ==
    [i \in DOMAIN s |-> IF s[i] \in AllowedChars THEN s[i] ELSE " "]

clean_text(t) ==
    LET spaces == CollapseRuns(t, {" ", "\t"}, " ")
        newlines == CollapseRuns(spaces, {"\n"}, "\n")
        allowed == ReplaceDisallowed(newlines)
    IN Strip(CollapseRuns(allowed, {" "}, " "))

(***************************************************************************)
(* chunk_resume_text                                                       *)
(***************************************************************************)
\* The lookahead (?=[A-Z][A-Z\s]{3,}) at index j of s.
HeaderAhead(s, j) ==
    /\ j + 3 <= Len(s)
    /\ s[j] \in Upper
    /\ \A k \in 1..3 : s[j + k] \in Upper \cup Whitespace

\* re.split(r'\n(?=[A-Z][A-Z\s]{3,})\n*', s) from index start on: the text up
\* to the first match is a piece, and the split goes on after the match (the
\* newline, and the newlines \n* takes after it).
RECURSIVE SplitSectionsFrom(_, _)
SplitSectionsFrom(s, start) ==
    LET matches == {i \in start..Len(s) : s[i] = "\n" /\ HeaderAhead(s, i + 1)}
    IN IF matches = {} THEN <<SubSeq(s, start, Len(s))>>
       ELSE LET i == Least(matches)
            IN <<SubSeq(s, start, i - 1)>>
               \o SplitSectionsFrom(s, RunEnd(s, i + 1, {"\n"}))

SplitSections(s) == SplitSectionsFrom(s, 1)

SentenceEnders == {".", "!", "?"}

\* re.split(r'[.!?]+|\n\n+', s) from index start on: a match is a maximal run
\* of sentence enders, or a run of two or more newlines.
RECURSIVE SplitSentencesFrom(_, _)
SplitSentencesFrom(s, start) ==
    LET matches == {i \in start..Len(s) :
                       \/ s[i] \in SentenceEnders
                       \/ s[i] = "\n" /\ i + 1 <= Len(s) /\ s[i + 1] = "\n"}
    IN IF matches = {} THEN <<SubSeq(s, start, Len(s))>>
       ELSE LET i == Least(matches)
                e == IF s[i] \in SentenceEnders
                     THEN RunEnd(s, i, SentenceEnders)
                     ELSE RunEnd(s, i, {"\n"})
            IN <<SubSeq(s, start, i - 1)>> \o SplitSentencesFrom(s, e)

SplitSentences(s) == SplitSentencesFrom(s, 1)

\* The minimum number of words of a chunk.
MinChunkWords == 10

\* section_words <= max_chunk_size
FitsInOneChunk(section_words, max) == section_words <= max

\* if section_words >= 10 (a section that fits in one chunk)
KeepSectionAlways(n) == TRUE
KeepSection(n) == n >= MinChunkWords

\* if len(chunk_text.split()) >= 10 (a buffer flushed inside the section)
KeepFlushed(n) == n >= MinChunkWords

\* if len(chunk_text.split()) >= 10 (the buffer left at the end of the section)
KeepLeftoverAlways(n) == TRUE
KeepLeftover(n) == n >= MinChunkWords

\* if len(chunk_words) >= 10 (a window of the fallback)
KeepWindowAlways(n) == TRUE
KeepWindow(n) == n >= MinChunkWords

\* current_word_count + word_count > max_chunk_size and current_chunk
MustFlushAfterTheFact(count, word_count, max, buffer) ==
    count > max /\ buffer # <<>>
MustFlushOneLate(count, word_count, max, buffer) ==
    count + word_count > max + 1 /\ buffer # <<>>
MustFlush(count, word_count, max, buffer) ==
    count + word_count > max /\ buffer # <<>>

\* ' '.join(current_chunk).strip()
ChunkText(buffer) == Strip(Join(buffer, <<" ">>))

\* The fallback: for i in range(0, len(words), max): words[i:i + max], joined
\* by spaces, kept when it has enough words.
RECURSIVE Windows(_, _)
Windows(words, max) ==
    IF words = <<>> THEN <<>>
    ELSE LET n == IF max < Len(words) THEN max ELSE Len(words)
             chunk_words == SubSeq(words, 1, n)
         IN (IF KeepWindow(Len(chunk_words))
             THEN <<Join(chunk_words, <<" ">>)>> ELSE <<>>)
            \o Windows(Suffix(words, n + 1), max)

\* Bound of the model: the number of parts a text is made of.
MaxParts == 3

\* The texts given to the chunker: up to MaxParts parts, each a sentence of
\* 3, 6 or 12 one-letter words, a section header on a line of its own, a
\* newline, a run of tab, space, a disallowed character and newlines, or a
\* line that starts in upper case without being a header.
Letters == <<"a", "b", "c", "d", "e", "f", "g", "h", "i", "j", "k", "l">>
SentenceOf(k, ender) ==
    Join([i \in 1..k |-> <<Letters[i]>>], <<" ">>) \o <<ender, " ">>
HeaderLine == <<"\n", "S", "K", "I", "L", "L", "S", "\n">>
TextParts ==
    {SentenceOf(3, "!"), SentenceOf(6, "."), SentenceOf(12, "."), HeaderLine,
     <<"\n">>, <<"\t", " ", "#", "\n", "\n">>,
     <<"\n", "U", "S", " ", "x", "?", "?", " ">>}
RECURSIVE Concat(_)
Concat(parts) == IF parts = <<>> THEN <<>> ELSE parts[1] \o Concat(Tail(parts))
Texts ==
    {Concat(ps) : ps \in UNION {[1..k -> TextParts] : k \in 0..MaxParts}}
ChunkSizes == {5, 10, 12}

\* Scenario 1 of the specification: two sections, chunked with max_words = 50.
ScenarioExperienceSection ==
    <<"E", "X", "P", "E", "R", "I", "E", "N", "C", "E", "\n">>
    \o <<"B", "u", "i", "l", "t", " ">>
    \o <<"X", " ">>
    \o <<"a", "t", " ">>
    \o <<"Y", " ">>
    \o <<"f", "o", "r", " ">>
    \o <<"t", "h", "r", "e", "e", " ">>
    \o <<"y", "e", "a", "r", "s", " ">>
    \o <<"m", "a", "n", "a", "g", "i", "n", "g", " ">>
    \o <<"a", " ">>
    \o <<"t", "e", "a", "m", " ">>
    \o <<"o", "f", " ">>
    \o <<"f", "i", "v", "e", " ">>
    \o <<"e", "n", "g", "i", "n", "e", "e", "r", "s", " ">>
    \o <<"a", "n", "d", " ">>
    \o <<"d", "e", "l", "i", "v", "e", "r", "i", "n", "g", " ">>
    \o <<"Z", ".">>
ScenarioEducationSection ==
    <<"E", "D", "U", "C", "A", "T", "I", "O", "N", "\n">>
    \o <<"B", "S", " ">>
    \o <<"i", "n", " ">>
    \o <<"C", "o", "m", "p", "u", "t", "e", "r", " ">>
    \o <<"S", "c", "i", "e", "n", "c", "e", " ">>
    \o <<"f", "r", "o", "m", " ">>
    \o <<"W", " ">>
    \o <<"U", "n", "i", "v", "e", "r", "s", "i", "t", "y", " ">>
    \o <<"2", "0", "1", "5", ".">>
Scenario1Text ==
    ScenarioExperienceSection \o <<"\n">> \o ScenarioEducationSection

InitChunk ==
    /\ \/ text \in Texts /\ max_chunk_size \in ChunkSizes
       \/ text = Scenario1Text /\ max_chunk_size = 50
    /\ chunk_pc = "start"
    /\ cleaned_text = <<>>
    /\ sections = <<>>
    /\ sentences = <<>>
    /\ current_chunk = <<>>
    /\ current_word_count = 0
    /\ chunks = <<>>
    /\ chunk_pass = 1
    /\ first_chunks = <<>>
    /\ GenIdle /\ StoreEmpty /\ RetrIdle /\ IngestIdle /\ TailorIdle /\ SingletonIdle

\* chunk_resume_text up to its outer loop: clean the text, split it in sections.
ChunkStart ==
    /\ chunk_pc = "start"
    /\ cleaned_text' = clean_text(text)
    /\ sections' = SplitSections(cleaned_text')
    /\ chunk_pc' = "sections"
    /\ UNCHANGED <<text, max_chunk_size, sentences, current_chunk,
                   current_word_count, chunks>>
    /\ UNCHANGED <<chunk_pass, first_chunks>>
    /\ UNCHANGED <<genVars, storeVars, retrVars, ingestVars, tailorVars, singletonVars>>

\* One iteration of the outer loop: an empty section is skipped, a section
\* that fits is kept or dropped whole, an oversized one is split in sentences.
SectionStep ==
    /\ chunk_pc = "sections"
    /\ sections # <<>>
    /\ LET section == Strip(Head(sections))
           section_words == WordCount(section)
       IN IF section = <<>>
          THEN UNCHANGED <<chunk_pc, sentences, current_chunk,
                           current_word_count, chunks>>
          ELSE IF FitsInOneChunk(section_words, max_chunk_size)
          THEN /\ chunks' = IF KeepSection(section_words)
                            THEN Append(chunks, section) ELSE chunks
               /\ UNCHANGED <<chunk_pc, sentences, current_chunk,
                              current_word_count>>
          ELSE /\ sentences' = SplitSentences(section)
               /\ current_chunk' = <<>>
               /\ current_word_count' = 0
               /\ chunk_pc' = "sentences"
               /\ UNCHANGED chunks
    /\ sections' = Tail(sections)
    /\ UNCHANGED <<text, max_chunk_size, cleaned_text>>
    /\ UNCHANGED <<chunk_pass, first_chunks>>
    /\ UNCHANGED <<genVars, storeVars, retrVars, ingestVars, tailorVars, singletonVars>>

\* One iteration of the inner loop: an empty sentence is skipped; a sentence
\* that would overflow a non-empty buffer flushes it and starts a new one;
\* any other sentence joins the buffer.
SentenceStep ==
    /\ chunk_pc = "sentences"
    /\ sentences # <<>>
    /\ LET sentence == Strip(Head(sentences))
           word_count == WordCount(sentence)
       IN IF sentence = <<>>
          THEN UNCHANGED <<current_chunk, current_word_count, chunks>>
          ELSE IF MustFlush(current_word_count, word_count, max_chunk_size,
                            current_chunk)
          THEN /\ chunks' = IF KeepFlushed(WordCount(ChunkText(current_chunk)))
                            THEN Append(chunks, ChunkText(current_chunk))
                            ELSE chunks
               /\ current_chunk' = <<sentence>>
               /\ current_word_count' = word_count
          ELSE /\ current_chunk' = Append(current_chunk, sentence)
               /\ current_word_count' = current_word_count + word_count
               /\ UNCHANGED chunks
    /\ sentences' = Tail(sentences)
    /\ UNCHANGED <<text, max_chunk_size, chunk_pc, cleaned_text, sections>>
    /\ UNCHANGED <<chunk_pass, first_chunks>>
    /\ UNCHANGED <<genVars, storeVars, retrVars, ingestVars, tailorVars, singletonVars>>

\* After the inner loop: the buffer left over is kept or dropped.
LeftoverFlush ==
    /\ chunk_pc = "sentences"
    /\ sentences = <<>>
    /\ chunks' = IF /\ current_chunk # <<>>
                    /\ KeepLeftover(WordCount(ChunkText(current_chunk)))
                 THEN Append(chunks, ChunkText(current_chunk)) ELSE chunks
    /\ chunk_pc' = "sections"
    /\ UNCHANGED <<text, max_chunk_size, cleaned_text, sections, sentences,
                   current_chunk, current_word_count>>
    /\ UNCHANGED <<chunk_pass, first_chunks>>
    /\ UNCHANGED <<genVars, storeVars, retrVars, ingestVars, tailorVars, singletonVars>>

\* After the outer loop: with no chunk so far, the sliding window over the
\* words of the cleaned text; then return.
ChunkReturn ==
    /\ chunk_pc = "sections"
    /\ sections = <<>>
    /\ chunks' = IF chunks = <<>>
                 THEN Windows(SplitWords(cleaned_text), max_chunk_size)
                 ELSE chunks
    /\ chunk_pc' = "done"
    /\ UNCHANGED <<text, max_chunk_size, cleaned_text, sections, sentences,
                   current_chunk, current_word_count>>
    /\ UNCHANGED <<chunk_pass, first_chunks>>
    /\ UNCHANGED <<genVars, storeVars, retrVars, ingestVars, tailorVars, singletonVars>>

NextChunk ==
    ChunkStart \/ SectionStep \/ SentenceStep \/ LeftoverFlush \/ ChunkReturn

\* One call of chunk_resume_text.
SpecChunk == InitChunk /\ [][NextChunk]_vars

\* A second call of chunk_resume_text, with the chunks the first call
\* returned joined by a separator as its text and the same max_chunk_size.
ChunkSeparators == {<<" ">>, <<"\n">>}
Rechunk ==
    /\ chunk_pc = "done"
    /\ chunk_pass = 1
    /\ \E sep \in ChunkSeparators : text' = Join(chunks, sep)
    /\ first_chunks' = chunks
    /\ chunk_pass' = 2
    /\ chunk_pc' = "start"
    /\ cleaned_text' = <<>>
    /\ sections' = <<>>
    /\ sentences' = <<>>
    /\ current_chunk' = <<>>
    /\ current_word_count' = 0
    /\ chunks' = <<>>
    /\ UNCHANGED max_chunk_size
    /\ UNCHANGED <<genVars, storeVars, retrVars, ingestVars, tailorVars, singletonVars>>

NextRechunk ==
    \/ NextChunk
    \/ Rechunk

\* A section whose last sentence has no terminator, as the lines of a resume
\* often have: "a b c. a b c d e f g h".
UnterminatedSection ==
    SentenceOf(3, ".") \o Join([i \in 1..8 |-> <<Letters[i]>>], <<" ">>)
\* Two such sections, the second under a header.
UnterminatedText == UnterminatedSection \o HeaderLine \o UnterminatedSection

InitRechunk ==
    /\ text \in Texts \cup {UnterminatedText}
    /\ max_chunk_size \in ChunkSizes
    /\ chunk_pc = "start"
    /\ cleaned_text = <<>>
    /\ sections = <<>>
    /\ sentences = <<>>
    /\ current_chunk = <<>>
    /\ current_word_count = 0
    /\ chunks = <<>>
    /\ chunk_pass = 1
    /\ first_chunks = <<>>
    /\ GenIdle /\ StoreEmpty /\ RetrIdle /\ IngestIdle /\ TailorIdle /\ SingletonIdle

SpecRechunk == InitRechunk /\ [][NextRechunk]_vars

(***************************************************************************)
(* ResumeGenerator.rewrite_chunks                                          *)
(***************************************************************************)
\* not chunks
NoChunks(n) == n = 0

\* not job_description.strip()
IsBlankNoStrip(jd) == jd = <<>>
IsBlank(jd) == Strip(jd) = <<>>

\* not generated_text
IsEmptyContentNever(content) == FALSE
IsEmptyContent(content) == content = <<>>

\* Bounds of the model.
MaxChunks == 3
MaxLines == 2

\* The inputs of a call: the number of chunks and the job description.
ChunkCounts == 0..MaxChunks
JobDescriptions == {<<>>, <<" ", "\n">>, <<" ", "d", "e", "v", " ">>}

\* The model responses the external client may return.  A response is up to
\* MaxLines lines joined by newlines; the lines cover the three bullet
\* markers, unmarked lines, lines on either side of the fallback's length
\* floor, and citation tags that are valid, zero, out of range, multi-digit,
\* repeated, out of numeric order, and in the comma form of the system prompt.
Tag(digs) == <<"[", "C">> \o digs \o <<"]">>
CommaTag == <<"[", "C", "1", ",", " ", "C", "2", "]">>
TagOptions ==
    {<<>>, Tag(<<"0">>), Tag(<<"1">>), Tag(<<"2">>), Tag(<<"9">>),
     Tag(<<"1", "2">>), CommaTag, Tag(<<"2">>) \o Tag(<<"1">>),
     Tag(<<"1">>) \o <<" ">> \o Tag(<<"1">>)}
ShortText == <<"L", "e", "d", " ", "a", " ", "t", "e", "a", "m">>
LongText == ShortText \o <<" ", "o", "f", " ", "5">>
WithTag(body, tag) == IF tag = <<>> THEN body ELSE body \o <<" ">> \o tag
ResponseLines ==
    {WithTag(<<"BULLET", " ", "A">>, tag) : tag \in TagOptions}
    \cup {WithTag(<<m, " ", "A">>, tag) :
              m \in {"-", "*"}, tag \in {<<>>, Tag(<<"1">>)}}
    \cup {WithTag(<<"A">>, Tag(<<"1">>)),
          ShortText, LongText, <<"BULLET", " ">> \o LongText, <<>>,
          <<" ", " ">> \o WithTag(<<"BULLET", " ", "A">>, Tag(<<"2">>)) \o <<" ">>}

\* Scenario 4 of the specification, in the tag syntax of the system prompt
\* (_create_system_prompt, OUTPUT FORMAT): "BULLET A [C1]" / "BULLET B [C1, C2]".
Scenario4Response ==
    WithTag(<<"BULLET", " ", "A">>, Tag(<<"1">>)) \o <<"\n">>
    \o WithTag(<<"BULLET", " ", "B">>, CommaTag)

Responses ==
    {Join(ls, <<"\n">>) :
        ls \in UNION {[1..k -> ResponseLines] : k \in 1..MaxLines}}
    \cup {Scenario4Response}

InitGen ==
    /\ num_chunks \in ChunkCounts
    /\ job_description \in JobDescriptions
    /\ gen_pc = "start"
    /\ api_calls = 0
    /\ model_outcome = "none"
    /\ generated_text = <<>>
    /\ all_cited_chunks = <<>>
    /\ tailored_bullets = <<>>
    /\ cited_chunks = <<>>
    /\ ChunkIdle /\ StoreEmpty /\ RetrIdle /\ IngestIdle /\ TailorIdle /\ SingletonIdle

\* rewrite_chunks from its entry to the call of the external client: the two
\* precondition checks, each raising ValueError, then the request is issued.
RewriteChunksEnter ==
    /\ gen_pc = "start"
    /\ IF NoChunks(num_chunks) \/ IsBlank(job_description)
       THEN /\ gen_pc' = "ValueError"
            /\ UNCHANGED api_calls
       ELSE /\ gen_pc' = "calling"
            /\ api_calls' = api_calls + 1
    /\ UNCHANGED <<num_chunks, job_description, model_outcome, generated_text,
                   all_cited_chunks, tailored_bullets, cited_chunks>>
    /\ UNCHANGED <<chunkVars, storeVars, retrVars, ingestVars, tailorVars, singletonVars>>

\* The client call raises: the except clause re-raises as RuntimeError.
ModelRaises ==
    /\ gen_pc = "calling"
    /\ model_outcome' = "raised"
    /\ gen_pc' = "RuntimeError"
    /\ UNCHANGED <<num_chunks, job_description, api_calls, generated_text,
                   all_cited_chunks, tailored_bullets, cited_chunks>>
    /\ UNCHANGED <<chunkVars, storeVars, retrVars, ingestVars, tailorVars, singletonVars>>

\* The client call returns content: empty content raises RuntimeError, any
\* other content is parsed, its citations deduplicated, and the result returned.
ModelReturns ==
    /\ gen_pc = "calling"
    /\ \E content \in Responses :
          /\ generated_text' = content
          /\ model_outcome' = "returned"
          /\ IF IsEmptyContent(content)
             THEN /\ gen_pc' = "RuntimeError"
                  /\ UNCHANGED <<all_cited_chunks, tailored_bullets, cited_chunks>>
             ELSE LET parsed == parse_generated_response(content, num_chunks)
                  IN /\ all_cited_chunks' = parsed.cited
                     /\ tailored_bullets' = parsed.bullets
                     /\ cited_chunks' = Dedup(parsed.cited)
                     /\ gen_pc' = "returned"
    /\ UNCHANGED <<num_chunks, job_description, api_calls>>
    /\ UNCHANGED <<chunkVars, storeVars, retrVars, ingestVars, tailorVars, singletonVars>>

NextGen == RewriteChunksEnter \/ ModelRaises \/ ModelReturns

\* One call of ResumeGenerator.rewrite_chunks.
SpecGen == InitGen /\ [][NextGen]_vars

(***************************************************************************)
(* The Retriever: retrieve_relevant_chunks (app/services/retrieval.py).    *)
(*                                                                         *)
(* A vector has Dim components, standing for the 384 of the embedding      *)
(* model.  The embedder normalises its output (normalize_embeddings=True): *)
(* a unit vector has length Scale on the integer lattice, and a distance   *)
(* is kept in units of 1/Scale^2, so that 1.0 is Unit.  Arithmetic is      *)
(* exact; the square root of the euclidean norm is rounded down.           *)
(***************************************************************************)
Scale == 5
Unit == Scale * Scale

\* np.dot of a stored vector and the query vector.
Dot(u, q) == u[1] * q[1] + u[2] * q[2]

\* The integer square root; arguments never exceed (2 * Unit)^2.
Isqrt(n) == CHOOSE k \in 0..(2 * Unit) : k * k <= n /\ n < (k + 1) * (k + 1)

\* np.linalg.norm(chunk - query), in distance units.
Norm(u, q) ==
    Isqrt(Unit * ((u[1] - q[1]) * (u[1] - q[1]) + (u[2] - q[2]) * (u[2] - q[2])))

\* distances = 1.0 - similarities
CosineDistanceUnshifted(u, q) == 0 - Dot(u, q)
CosineDistance(u, q) == Unit - Dot(u, q)
\* distances = np.linalg.norm(chunk_embeddings_matrix - jd_embedding_np, axis=1)
EuclideanDistance(u, q) == Norm(u, q)
\* distances = -similarities
DotProductDistance(u, q) == 0 - Dot(u, q)

\* The metric dispatch of the in-process path; metric is the local variable
\* similarity_metric, i.e. the configured name already lower-cased.  An
\* unknown name falls back to cosine.
MetricDistance(metric, u, q) ==
    CASE metric = "cosine" -> CosineDistance(u, q)
      [] metric = "euclidean" -> EuclideanDistance(u, q)
      [] metric = "dot_product" -> DotProductDistance(u, q)
      [] OTHER -> CosineDistance(u, q)

\* rc.embedding <-> :query_embedding, the L2 distance operator of pgvector.
PgvectorDistance(u, q) == Norm(u, q)

\* "postgresql" in DATABASE_URL
UsesPgvector(url) == url = "postgresql"

\* not job_description.strip()
QueryIsBlank(jd) == Strip(jd) = <<>>

\* The candidate scope: the rows of resume_chunks joined to resumes, under
\* the optional WHERE rc.resume_id = :resume_id.
InScopeAnyResume(row, rid, known) == row.resume_id \in known
InScope(row, rid, known) ==
    /\ row.resume_id \in known
    /\ rid # NoneId => row.resume_id = rid
ScopeRows(table, rid, known) ==
    {table[i] : i \in {j \in DOMAIN table : InScope(table[j], rid, known)}}

\* All the orders in which a set of rows can be arranged.  A SELECT without
\* ORDER BY delivers its rows in an order the storage layer chooses.
Orderings(S) ==
    {f \in [1..Cardinality(S) -> S] : \A i, j \in DOMAIN f : f[i] = f[j] => i = j}

\* distance <= distance_threshold
WithinThresholdAlways(d, threshold) == TRUE
WithinThreshold(d, threshold) == d <= threshold

\* json.loads(row.embedding) succeeds.  The text of an embedding column that
\* cannot be parsed is written <<>>.
Decodable(embedding) == embedding # <<>>

\* s[:n]
TruncateNone(s, n) == s
Truncate(s, n) == SubSeq(s, 1, IF n < Len(s) THEN n ELSE Len(s))

\* LIMIT :limit
SqlLimit(s, n) == SubSeq(s, 1, IF n < Len(s) THEN n ELSE Len(s))

\* ORDER BY distance ASC: every arrangement of the rows in which distances
\* do not decrease; the order of rows of equal distance is the engine's.
OrderByDistance(S) ==
    {f \in Orderings(S) : \A i, j \in DOMAIN f : i < j => f[i].distance <= f[j].distance}

\* retrieval_results.sort(key=lambda x: x.distance): a stable sort, rows of
\* equal distance keep their relative order.
InsertByDistance(sorted, r) ==
    LET k == Cardinality({i \in DOMAIN sorted : sorted[i].distance <= r.distance})
    IN SubSeq(sorted, 1, k) \o <<r>> \o SubSeq(sorted, k + 1, Len(sorted))
RECURSIVE SortByDistance(_)
SortByDistance(s) ==
    IF s = <<>> THEN <<>>
    ELSE InsertByDistance(SortByDistance(SubSeq(s, 1, Len(s) - 1)), s[Len(s)])

\* The SELECT of the PostgreSQL branch: the rows in scope with their
\* distance column.
PgSelect(table, rid, known, q) ==
    {[chunk_id |-> r.chunk_id, resume_id |-> r.resume_id,
      distance |-> PgvectorDistance(r.embedding, q)] :
        r \in ScopeRows(table, rid, known)}

\* The loop over the rows of the PostgreSQL branch.
PgResults(fetched, threshold) ==
    SelectSeq(fetched, LAMBDA r : WithinThreshold(r.distance, threshold))

\* The in-process branch after the fetch: decode (rows that fail are
\* skipped), compute the distances, filter, sort, truncate.
DecodedRows(fetched) == SelectSeq(fetched, LAMBDA r : Decodable(r.embedding))
WithDistances(decoded, metric, q) ==
    [i \in DOMAIN decoded |->
        [chunk_id |-> decoded[i].chunk_id, resume_id |-> decoded[i].resume_id,
         distance |-> MetricDistance(metric, decoded[i].embedding, q)]]
InProcessResults(fetched, metric, q, threshold, n) ==
    LET scored == WithDistances(DecodedRows(fetched), metric, q)
        kept == SelectSeq(scored, LAMBDA r : WithinThreshold(r.distance, threshold))
    IN Truncate(SortByDistance(kept), n)

\* ---- the inputs of a call ----
MaxRows == 3
MaxLimit == 2

\* The vectors the embedder stored at ingestion, and the text of an embedding
\* column that cannot be parsed.
StoredVectors == {<<Scale, 0>>, <<0, Scale>>, <<0 - Scale, 0>>}
Embeddings == StoredVectors \cup {<<>>}
\* The vectors the embedder may return for the query, and one of the wrong
\* dimension.
QueryVectors == {<<Scale, 0>>, <<4, 3>>}
WrongDimensionVector == <<Scale>>
\* config.EMBEDDING_DIM is read from the environment or config.json: the
\* default (384, modelled by Dim) or the dimension of a larger model.
EmbeddingDims == {Dim, Dim + 1}
\* What an embedding model of the larger dimension returns.
LargerModelVector == <<Scale, 0, 0>>
\* expected_dim = 384, written into retrieve_relevant_chunks (line 87).
expected_dim == Dim
DimensionMismatch(v) == Len(v) # expected_dim

\* Chunk ids are assigned in insertion order; the first two chunks belong to
\* resume 1, the later ones to resume 2.
\* The chunk_text of the rows that are in the table before a call.
StoredText == <<"t", "e", "x", "t">>
ResumeOf(chunk_id) == IF chunk_id <= 2 THEN 1 ELSE 2
Tables ==
    {[i \in DOMAIN e |-> [chunk_id |-> i, resume_id |-> ResumeOf(i),
                           chunk_text |-> StoredText, embedding |-> e[i]]] :
        e \in UNION {[1..k -> Embeddings] : k \in 0..MaxRows}}
ResumeIds == {1, 2}
Scopes == {NoneId} \cup ResumeIds
Limits == 1..MaxLimit
\* The thresholds 0.48 and 1.44, in distance units.
DistanceThresholds == {12, 36}
Metrics == {"cosine", "euclidean", "dot_product", "manhattan"}
Queries == {<<>>, <<" ", "\n">>, <<" ", "d", "e", "v", " ">>}

InitRetrieve ==
    /\ resumes = ResumeIds
    /\ database_url \in {"postgresql", "sqlite"}
    /\ resume_chunks \in Tables
    \* a pgvector column holds vectors only
    /\ UsesPgvector(database_url) =>
          \A i \in DOMAIN resume_chunks : Decodable(resume_chunks[i].embedding)
    /\ retr_job_description \in Queries
    /\ resume_id \in Scopes
    /\ limit \in Limits
    /\ distance_threshold \in DistanceThresholds
    /\ similarity_metric \in Metrics
    /\ embedding_dim \in EmbeddingDims
    /\ retr_pc = "start"
    /\ retr_cause = "none"
    /\ encode_calls = 0
    /\ execute_calls = 0
    /\ jd_embedding = <<>>
    /\ rows = <<>>
    /\ retrieval_results = <<>>
    /\ GenIdle /\ ChunkIdle /\ IngestIdle /\ TailorIdle /\ SingletonIdle

\* Lines 70-85: the input validation; its ValueError is raised inside the try
\* block, so the except clause at the end of the function wraps it.
RetrieveEnter ==
    /\ retr_pc = "start"
    /\ IF QueryIsBlank(retr_job_description)
       THEN /\ retr_pc' = "RuntimeError"
            /\ retr_cause' = "ValueError"
            /\ UNCHANGED encode_calls
       ELSE /\ retr_pc' = "encoding"
            /\ encode_calls' = encode_calls + 1
            /\ UNCHANGED retr_cause
    /\ UNCHANGED <<retr_job_description, resume_id, limit, distance_threshold,
                   database_url, similarity_metric, embedding_dim,
                   execute_calls, jd_embedding,
                   rows, retrieval_results>>
    /\ UNCHANGED <<genVars, chunkVars, storeVars, ingestVars, tailorVars, singletonVars>>

\* Lines 85-89: embedder.encode_single returns; the dimension check.
EncodeReturns ==
    /\ retr_pc = "encoding"
    /\ \E v \in QueryVectors \cup {WrongDimensionVector, LargerModelVector} :
          /\ jd_embedding' = v
          /\ IF DimensionMismatch(v)
             THEN retr_pc' = "RuntimeError" /\ retr_cause' = "RuntimeError"
             ELSE retr_pc' = "searching" /\ UNCHANGED retr_cause
    /\ UNCHANGED <<retr_job_description, resume_id, limit, distance_threshold,
                   database_url, similarity_metric, embedding_dim,
                   encode_calls, execute_calls,
                   rows, retrieval_results>>
    /\ UNCHANGED <<genVars, chunkVars, storeVars, ingestVars, tailorVars, singletonVars>>

\* Line 85: embedder.encode_single raises.
EncodeRaises ==
    /\ retr_pc = "encoding"
    /\ retr_pc' = "RuntimeError"
    /\ retr_cause' = "EmbedderError"
    /\ UNCHANGED <<retr_job_description, resume_id, limit, distance_threshold,
                   database_url, similarity_metric, embedding_dim,
                   encode_calls, execute_calls,
                   jd_embedding, rows, retrieval_results>>
    /\ UNCHANGED <<genVars, chunkVars, storeVars, ingestVars, tailorVars, singletonVars>>

\* Lines 94-145: the PostgreSQL branch.
PostgresSearch ==
    /\ retr_pc = "searching"
    /\ UsesPgvector(database_url)
    /\ execute_calls' = execute_calls + 1
    /\ \E ordered \in OrderByDistance(PgSelect(resume_chunks, resume_id, resumes,
                                               jd_embedding)) :
          /\ rows' = SqlLimit(ordered, limit)
          /\ retrieval_results' =
                IF rows' = <<>> THEN <<>> ELSE PgResults(rows', distance_threshold)
    /\ retr_pc' = "returned"
    /\ UNCHANGED <<retr_job_description, resume_id, limit, distance_threshold,
                   database_url, similarity_metric, embedding_dim,
                   retr_cause, encode_calls,
                   jd_embedding>>
    /\ UNCHANGED <<genVars, chunkVars, storeVars, ingestVars, tailorVars, singletonVars>>

\* Lines 146-249: the in-process branch.
SqliteSearch ==
    /\ retr_pc = "searching"
    /\ ~UsesPgvector(database_url)
    /\ execute_calls' = execute_calls + 1
    /\ \E fetched \in Orderings(ScopeRows(resume_chunks, resume_id, resumes)) :
          /\ rows' = fetched
          /\ retrieval_results' =
                IF rows' = <<>> THEN <<>>
                ELSE IF DecodedRows(rows') = <<>> THEN <<>>
                ELSE InProcessResults(rows', similarity_metric, jd_embedding,
                                      distance_threshold, limit)
    /\ retr_pc' = "returned"
    /\ UNCHANGED <<retr_job_description, resume_id, limit, distance_threshold,
                   database_url, similarity_metric, embedding_dim,
                   retr_cause, encode_calls,
                   jd_embedding>>
    /\ UNCHANGED <<genVars, chunkVars, storeVars, ingestVars, tailorVars, singletonVars>>

\* Lines 125, 170: db.execute raises.
ExecuteRaises ==
    /\ retr_pc = "searching"
    /\ execute_calls' = execute_calls + 1
    /\ retr_pc' = "RuntimeError"
    /\ retr_cause' = "DatabaseError"
    /\ UNCHANGED <<retr_job_description, resume_id, limit, distance_threshold,
                   database_url, similarity_metric, embedding_dim,
                   encode_calls, jd_embedding,
                   rows, retrieval_results>>
    /\ UNCHANGED <<genVars, chunkVars, storeVars, ingestVars, tailorVars, singletonVars>>

NextRetrieve ==
    \/ RetrieveEnter
    \/ EncodeReturns
    \/ EncodeRaises
    \/ PostgresSearch
    \/ SqliteSearch
    \/ ExecuteRaises

SpecRetrieve == InitRetrieve /\ [][NextRetrieve]_vars

(***************************************************************************)
(* ingest_resume (app/services/ingestion.py).  The session holds the rows  *)
(* flushed or added in the open transaction; the tables hold the committed *)
(* rows.  The text column of a chunk row plays no part in what follows and *)
(* is left out of the row.                                                 *)
(***************************************************************************)
\* The values config.CHUNK_MAX_WORDS may be configured to (200 by default);
\* it is the max_chunk_size of the call made by ingest_resume.
ChunkMaxWords == ChunkSizes \cup {200}

\* The id the database gives the next row of a table with the given ids.
NextId(ids) == IF ids = {} THEN 1 ELSE (CHOOSE m \in ids : \A k \in ids : k <= m) + 1

\* db.rollback(): the committed rows stay, the rows of the transaction go.
RollbackKeepsFlushed(committed, pending) == committed \cup pending
Rollback(committed, pending) == committed

\* len(embeddings) != len(chunks)
CountMismatch(vectors, texts) == Len(vectors) # Len(texts)

\* The chunk records built from the chunks and their embeddings.
\* for i, (chunk_text, embedding) in enumerate(zip(chunks, embeddings)):
\*     ResumeChunk(resume_id=resume_id, chunk_text=chunk_text, embedding=embedding)
ChunkRecordsOfFirstResume(first_id, rid, texts, vectors) ==
    [i \in DOMAIN vectors |->
        [chunk_id |-> first_id + i - 1, resume_id |-> 1,
         chunk_text |-> texts[i], embedding |-> vectors[i]]]
ChunkRecordsReversed(first_id, rid, texts, vectors) ==
    [i \in DOMAIN vectors |->
        [chunk_id |-> first_id + i - 1, resume_id |-> rid,
         chunk_text |-> texts[i], embedding |-> vectors[Len(vectors) + 1 - i]]]
ChunkRecords(first_id, rid, texts, vectors) ==
    [i \in DOMAIN vectors |->
        [chunk_id |-> first_id + i - 1, resume_id |-> rid,
         chunk_text |-> texts[i], embedding |-> vectors[i]]]

\* get_resume_stats: ValueError when the resume row is missing, otherwise
\* the statistics; chunk_count is the COUNT of the chunk rows of the resume.
ResumeStatsRaises(rid, known) == rid \notin known
ChunkCount(rid, table) ==
    Cardinality({i \in DOMAIN table : table[i].resume_id = rid})
get_resume_stats(rid, table) ==
    [resume_id |-> rid, chunk_count |-> ChunkCount(rid, table)]

\* What embedder.encode may return for n texts: n vectors, or one fewer, or
\* one more.
EncodeOutcomes(n) ==
    UNION {[1..k -> StoredVectors] : k \in {n - 1, n, n + 1} \cap 0..(n + 1)}

\* The database before the call: empty, or one resume with one chunk.
InitIngest ==
    /\ \/ resumes = {} /\ resume_chunks = <<>>
       \/ /\ resumes = {1}
          /\ resume_chunks = ChunkRecords(1, 1, <<StoredText>>, <<<<Scale, 0>>>>)
    /\ resume_text \in Texts
    /\ ingest_pc = "start"
    /\ session_resumes = {}
    /\ session_chunks = <<>>
    /\ new_resume_id = 0
    /\ embeddings = <<>>
    /\ GenIdle /\ ChunkIdle /\ RetrIdle /\ TailorIdle /\ SingletonIdle

\* Lines 142-157: clean the text, add and flush the resume row, call
\* chunk_resume_text(cleaned_text).
IngestEnter ==
    /\ ingest_pc = "start"
    /\ new_resume_id' = NextId(resumes)
    /\ session_resumes' = {new_resume_id'}
    /\ text' = clean_text(resume_text)
    /\ max_chunk_size' \in ChunkMaxWords
    /\ chunk_pc' = "start"
    /\ ingest_pc' = "chunking"
    /\ UNCHANGED <<resume_text, session_chunks, embeddings>>
    /\ UNCHANGED <<cleaned_text, sections, sentences, current_chunk,
                   current_word_count, chunks, chunk_pass, first_chunks>>
    /\ UNCHANGED <<genVars, storeVars, retrVars, tailorVars, singletonVars>>

\* Lines 157-166: chunk_resume_text returned; no chunk raises ValueError,
\* which the except clause answers with db.rollback() and re-raises.
IngestChunked ==
    /\ ingest_pc = "chunking"
    /\ chunk_pc = "done"
    /\ IF chunks = <<>>
       THEN /\ ingest_pc' = "raised"
            /\ session_resumes' = {}
            /\ session_chunks' = <<>>
            /\ resumes' = Rollback(resumes, session_resumes)
       ELSE /\ ingest_pc' = "encoding"
            /\ UNCHANGED <<session_resumes, session_chunks, resumes>>
    /\ UNCHANGED <<resume_text, new_resume_id, embeddings, resume_chunks>>
    /\ UNCHANGED <<genVars, chunkVars, retrVars, tailorVars, singletonVars>>

\* Lines 166-182: embedder.encode returned; a wrong count raises ValueError
\* (rollback), otherwise the chunk records are added to the session.
IngestEncoded ==
    /\ ingest_pc = "encoding"
    /\ \E vectors \in EncodeOutcomes(Len(chunks)) :
          /\ embeddings' = vectors
          /\ IF CountMismatch(vectors, chunks)
             THEN /\ ingest_pc' = "raised"
                  /\ resumes' = Rollback(resumes, session_resumes)
                  /\ session_resumes' = {}
                  /\ session_chunks' = <<>>
             ELSE /\ ingest_pc' = "committing"
                  /\ session_chunks' =
                        ChunkRecords(Len(resume_chunks) + 1, new_resume_id,
                                     chunks, vectors)
                  /\ UNCHANGED <<resumes, session_resumes>>
    /\ UNCHANGED <<resume_text, new_resume_id, resume_chunks>>
    /\ UNCHANGED <<genVars, chunkVars, retrVars, tailorVars, singletonVars>>

\* Lines 183-186: db.commit() succeeds; the rows of the session are stored.
IngestCommit ==
    /\ ingest_pc = "committing"
    /\ ingest_pc' = "returned"
    /\ resumes' = resumes \cup session_resumes
    /\ resume_chunks' = resume_chunks \o session_chunks
    /\ session_resumes' = {}
    /\ session_chunks' = <<>>
    /\ UNCHANGED <<resume_text, new_resume_id, embeddings>>
    /\ UNCHANGED <<genVars, chunkVars, retrVars, tailorVars, singletonVars>>

\* Line 183: db.commit() raises; rollback, re-raise.
IngestCommitRaises ==
    /\ ingest_pc = "committing"
    /\ ingest_pc' = "raised"
    /\ resumes' = Rollback(resumes, session_resumes)
    /\ session_resumes' = {}
    /\ session_chunks' = <<>>
    /\ UNCHANGED <<resume_text, new_resume_id, embeddings, resume_chunks>>
    /\ UNCHANGED <<genVars, chunkVars, retrVars, tailorVars, singletonVars>>

\* Line 166: embedder.encode raises; rollback, re-raise.
IngestEncodeRaises ==
    /\ ingest_pc = "encoding"
    /\ ingest_pc' = "raised"
    /\ resumes' = Rollback(resumes, session_resumes)
    /\ session_resumes' = {}
    /\ session_chunks' = <<>>
    /\ UNCHANGED <<resume_text, new_resume_id, embeddings, resume_chunks>>
    /\ UNCHANGED <<genVars, chunkVars, retrVars, tailorVars, singletonVars>>

NextIngest ==
    \/ IngestEnter
    \/ NextChunk
    \/ IngestChunked
    \/ IngestEncoded
    \/ IngestEncodeRaises
    \/ IngestCommit
    \/ IngestCommitRaises

SpecIngest == InitIngest /\ [][NextIngest]_vars

(***************************************************************************)
(* tailor_resume (app/api/tailor.py): validate the resume, call            *)
(* retrieve_chunks_for_resume, call rewrite_chunks, answer.                *)
(***************************************************************************)
\* resume = db.query(Resume).filter(Resume.id == request.resume_id).first()
ResumeFoundAlways(rid, known) == TRUE
ResumeFound(rid, known) == rid \in known

\* not relevant_chunks
NoRelevantChunksNever(results) == FALSE
NoRelevantChunks(results) == results = <<>>

\* The requests that pass the validation of TailorRequest (jd_text has at
\* least 10 characters, retrieval_limit is in 1..50 and 12 by default).
TailorJobDescriptions ==
    {[i \in 1..10 |-> " "], <<"p", "y", "t", "h", "o", "n", " ", "d", "e", "v">>}
TailorRequests ==
    [resume_id : {1, 2, 3}, jd_text : TailorJobDescriptions, retrieval_limit : {1, 12}]

\* The databases of the pipeline runs: resumes 1 and 2 exist, resume 3 does
\* not; up to two chunks, all of resume 1.
TailorTables ==
    {t \in Tables :
        /\ Len(t) <= 2
        /\ \A i \in DOMAIN t : t[i].embedding \in {<<Scale, 0>>, <<0, Scale>>}}

InitTailor ==
    /\ request \in TailorRequests
    /\ tailor_pc = "start"
    /\ status_code = 0
    /\ resumes = ResumeIds
    /\ resume_chunks \in TailorTables
    \* the configuration: the backend, the default metric and threshold
    /\ database_url \in {"postgresql", "sqlite"}
    /\ similarity_metric = "cosine"
    /\ distance_threshold = 12
    /\ embedding_dim = Dim
    \* no retrieval in progress
    /\ retr_job_description = <<>>
    /\ resume_id = NoneId
    /\ limit = 0
    /\ retr_pc = "idle"
    /\ retr_cause = "none"
    /\ encode_calls = 0
    /\ execute_calls = 0
    /\ jd_embedding = <<>>
    /\ rows = <<>>
    /\ retrieval_results = <<>>
    /\ GenIdle /\ ChunkIdle /\ IngestIdle /\ SingletonIdle

\* Lines 61-80: the resume lookup (404 when absent) and the call of
\* retrieve_chunks_for_resume, which passes its arguments on to
\* retrieve_relevant_chunks and leaves the threshold to the configuration.
TailorEnter ==
    /\ tailor_pc = "start"
    /\ IF ~ResumeFound(request.resume_id, resumes)
       THEN /\ tailor_pc' = "failed"
            /\ status_code' = 404
            /\ UNCHANGED retrVars
       ELSE /\ tailor_pc' = "retrieving"
            /\ retr_job_description' = request.jd_text
            /\ resume_id' = request.resume_id
            /\ limit' = request.retrieval_limit
            /\ retr_pc' = "start"
            /\ UNCHANGED <<status_code, distance_threshold, database_url,
                           similarity_metric, embedding_dim, retr_cause, encode_calls,
                           execute_calls, jd_embedding, rows, retrieval_results>>
    /\ UNCHANGED request
    /\ UNCHANGED <<genVars, chunkVars, storeVars, ingestVars, singletonVars>>

\* Lines 75-99 and 135-143: retrieval ended.  Its exception becomes the 500
\* of the last except clause, an empty list the 400 raised at line 83;
\* otherwise rewrite_chunks is called with the chunks and the jd_text.
TailorRetrieved ==
    /\ tailor_pc = "retrieving"
    /\ retr_pc \in {"returned", "RuntimeError"}
    /\ IF retr_pc = "RuntimeError"
       THEN /\ tailor_pc' = "failed"
            /\ status_code' = 500
            /\ UNCHANGED genVars
       ELSE IF NoRelevantChunks(retrieval_results)
       THEN /\ tailor_pc' = "failed"
            /\ status_code' = 400
            /\ UNCHANGED genVars
       ELSE /\ tailor_pc' = "generating"
            /\ num_chunks' = Len(retrieval_results)
            /\ job_description' = request.jd_text
            /\ gen_pc' = "start"
            /\ UNCHANGED <<status_code, api_calls, model_outcome, generated_text,
                           all_cited_chunks, tailored_bullets, cited_chunks>>
    /\ UNCHANGED request
    /\ UNCHANGED <<chunkVars, storeVars, retrVars, ingestVars, singletonVars>>

\* Lines 94-143: rewrite_chunks ended; its result is the response, its
\* exception the 500 of the last except clause.
TailorGenerated ==
    /\ tailor_pc = "generating"
    /\ gen_pc \in {"returned", "ValueError", "RuntimeError"}
    /\ IF gen_pc = "returned"
       THEN tailor_pc' = "done" /\ status_code' = 200
       ELSE tailor_pc' = "failed" /\ status_code' = 500
    /\ UNCHANGED request
    /\ UNCHANGED <<genVars, chunkVars, storeVars, retrVars, ingestVars, singletonVars>>

NextTailor ==
    \/ TailorEnter
    \/ NextRetrieve
    \/ TailorRetrieved
    \/ NextGen
    \/ TailorGenerated

SpecTailor == InitTailor /\ [][NextTailor]_vars

(***************************************************************************)
(* A query against an existing resume while another request ingests a new  *)
(* resume.  Each request has its own database session (get_db), so the    *)
(* query reads the committed tables while the rows of the ingestion stay  *)
(* in its session until db.commit().  The steps of the two calls          *)
(* interleave freely.                                                     *)
(***************************************************************************)
\* Three stored chunks: chunks 1 and 2 of resume 1, chunk 3 of resume 2.
ConcurrentTables ==
    {[i \in DOMAIN e |-> [chunk_id |-> i, resume_id |-> ResumeOf(i),
                           chunk_text |-> StoredText, embedding |-> e[i]]] :
        e \in [1..3 -> {<<Scale, 0>>, <<0, Scale>>}]}
\* The resume being ingested: nothing, or one long sentence.
ConcurrentTexts == {<<>>, SentenceOf(12, ".")}

InitConcurrent ==
    /\ resumes = ResumeIds
    /\ resume_chunks \in ConcurrentTables
    /\ database_url \in {"postgresql", "sqlite"}
    \* the query, scoped to an existing resume
    /\ retr_job_description = <<"d", "e", "v">>
    /\ resume_id \in ResumeIds
    /\ limit \in {1, 2}
    /\ distance_threshold \in DistanceThresholds
    /\ similarity_metric = "cosine"
    /\ embedding_dim = Dim
    /\ retr_pc = "start"
    /\ retr_cause = "none"
    /\ encode_calls = 0
    /\ execute_calls = 0
    /\ jd_embedding = <<>>
    /\ rows = <<>>
    /\ retrieval_results = <<>>
    \* the ingestion of a new resume, if there is one
    /\ resume_text \in ConcurrentTexts
    /\ ingest_pc \in {"idle", "start"}
    /\ ingest_pc = "idle" => resume_text = <<>>
    /\ session_resumes = {}
    /\ session_chunks = <<>>
    /\ new_resume_id = 0
    /\ embeddings = <<>>
    /\ GenIdle /\ ChunkIdle /\ TailorIdle /\ SingletonIdle

NextConcurrent ==
    \/ NextRetrieve
    \/ NextIngest

SpecConcurrent == InitConcurrent /\ [][NextConcurrent]_vars

(***************************************************************************)
(* get_generator (generation.py:270-278): a lazily created module global   *)
(* with no lock.  Each caller runs the function's four steps: read the    *)
(* global and test it against None, call ResumeGenerator(), store the     *)
(* result in the global, read the global again for the return value.      *)
(* Callers on different threads may be switched between any two steps.    *)
(***************************************************************************)
MaxThreads == 3
Threads == 1..MaxThreads

\* The outcome of the test "_generator_instance is None".
SeesNone(instance) == instance = NoInstance

InitSingleton ==
    /\ generator_instance = NoInstance
    /\ thread_pc = [t \in Threads |-> "idle"]
    /\ thread_local = [t \in Threads |-> NoInstance]
    /\ thread_result = [t \in Threads |-> NoInstance]
    /\ constructions = 0
    /\ GenIdle /\ ChunkIdle /\ StoreEmpty /\ RetrIdle /\ IngestIdle /\ TailorIdle

\* if _generator_instance is None:
CheckInstance(t) ==
    /\ thread_pc[t] = "idle"
    /\ thread_pc' = [thread_pc EXCEPT ![t] =
                        IF SeesNone(generator_instance) THEN "constructing"
                                                        ELSE "returning"]
    /\ UNCHANGED <<generator_instance, thread_local, thread_result, constructions>>
    /\ UNCHANGED <<genVars, chunkVars, storeVars, retrVars, ingestVars, tailorVars>>

\* ResumeGenerator() returns a new object.
ConstructReturns(t) ==
    /\ thread_pc[t] = "constructing"
    /\ constructions' = constructions + 1
    /\ thread_local' = [thread_local EXCEPT ![t] = constructions + 1]
    /\ thread_pc' = [thread_pc EXCEPT ![t] = "assigning"]
    /\ UNCHANGED <<generator_instance, thread_result>>
    /\ UNCHANGED <<genVars, chunkVars, storeVars, retrVars, ingestVars, tailorVars>>

\* ResumeGenerator() raises (no API key, or the OpenAI client cannot be built);
\* the exception leaves get_generator and the global is not assigned.
ConstructRaises(t) ==
    /\ thread_pc[t] = "constructing"
    /\ thread_pc' = [thread_pc EXCEPT ![t] = "raised"]
    /\ UNCHANGED <<generator_instance, thread_local, thread_result, constructions>>
    /\ UNCHANGED <<genVars, chunkVars, storeVars, retrVars, ingestVars, tailorVars>>

\* _generator_instance = <the new object>
AssignInstance(t) ==
    /\ thread_pc[t] = "assigning"
    /\ generator_instance' = thread_local[t]
    /\ thread_pc' = [thread_pc EXCEPT ![t] = "returning"]
    /\ UNCHANGED <<thread_local, thread_result, constructions>>
    /\ UNCHANGED <<genVars, chunkVars, storeVars, retrVars, ingestVars, tailorVars>>

\* return _generator_instance
ReturnInstance(t) ==
    /\ thread_pc[t] = "returning"
    /\ thread_result' = [thread_result EXCEPT ![t] = generator_instance]
    /\ thread_pc' = [thread_pc EXCEPT ![t] = "returned"]
    /\ UNCHANGED <<generator_instance, thread_local, constructions>>
    /\ UNCHANGED <<genVars, chunkVars, storeVars, retrVars, ingestVars, tailorVars>>

NextSingleton ==
    \E t \in Threads :
        \/ CheckInstance(t)
        \/ ConstructReturns(t)
        \/ ConstructRaises(t)
        \/ AssignInstance(t)
        \/ ReturnInstance(t)

SpecSingleton == InitSingleton /\ [][NextSingleton]_vars

(***************************************************************************)
(* Claims about the Generator, checked under SpecGen.                      *)
(***************************************************************************)
\* The stripped lines of a model response, in order.
StrippedLines(response) ==
    LET lines == SplitOn(Strip(response), "\n")
    IN [i \in DOMAIN lines |-> Strip(lines[i])]

\* The index of the first occurrence of v in s.
FirstIndex(s, v) ==
    CHOOSE k \in DOMAIN s : s[k] = v /\ \A m \in 1..(k - 1) : s[m] # v

\* C1: every integer in the returned cited_chunks is a valid zero-based index
\* into the supplied chunks, i.e. lies in 0..n-1, for every model response
\* (a response with the tag [C0] included).
C1_CitedIndicesValid ==
    gen_pc = "returned" =>
        \A i \in DOMAIN cited_chunks : cited_chunks[i] \in 0..(num_chunks - 1)

\* C2: with 3 chunks and the response "BULLET A [C1]" / "BULLET B [C1, C2]",
\* the result has exactly 2 statements and cited_chunks == [0, 1].
C2_Scenario4TwoStatements ==
    (gen_pc = "returned" /\ num_chunks = 3 /\ generated_text = Scenario4Response)
        => (Len(tailored_bullets) = 2 /\ cited_chunks = <<0, 1>>)

\* C3: every line of the response that, stripped, begins with a bullet marker
\* is returned as a statement, whether or not it carries a citation tag.
C3_EveryBulletLineReturned ==
    gen_pc = "returned" =>
        \A line \in Range(StrippedLines(generated_text)) :
            StartsWithBullet(line) => line \in Range(tailored_bullets)

\* C4: cited_chunks holds no value twice, holds exactly the values parsed
\* from the response, and holds them in the order of their first occurrence.
C4_CitedDedupFirstOccurrence ==
    gen_pc = "returned" =>
        /\ \A i, j \in DOMAIN cited_chunks :
              i # j => cited_chunks[i] # cited_chunks[j]
        /\ Range(cited_chunks) = Range(all_cited_chunks)
        /\ \A i, j \in DOMAIN cited_chunks :
              i < j => FirstIndex(all_cited_chunks, cited_chunks[i])
                         < FirstIndex(all_cited_chunks, cited_chunks[j])

\* C4 witness: a result whose citations repeated a value and whose order of
\* first occurrence is not the numeric order.
C4_Witness ==
    /\ gen_pc = "returned"
    /\ Len(all_cited_chunks) > Len(cited_chunks)
    /\ Len(cited_chunks) >= 2
    /\ cited_chunks[1] > cited_chunks[2]

\* A bullet line carrying a citation tag whose number exceeds len(chunks).
HasOutOfRangeTag(line, n) ==
    /\ StartsWithBullet(line)
    /\ \E k \in DOMAIN FindCitations(line) : ToInt(FindCitations(line)[k]) > n

\* C5: a tag numbered above the number of supplied chunks contributes nothing
\* to cited_chunks (no index >= n is ever cited), the call does not fail, and
\* the bullet line carrying it is still returned as a statement.
C5_OutOfRangeTagDropped ==
    /\ gen_pc = "returned" =>
          /\ \A i \in DOMAIN cited_chunks : cited_chunks[i] < num_chunks
          /\ \A line \in Range(StrippedLines(generated_text)) :
                HasOutOfRangeTag(line, num_chunks)
                    => line \in Range(tailored_bullets)
    /\ (/\ model_outcome = "returned"
        /\ \E line \in Range(StrippedLines(generated_text)) :
              HasOutOfRangeTag(line, num_chunks))
          => gen_pc = "returned"

\* C5 witness: 3 chunks, the only bullet line carries only the tag [C9]; it
\* is returned and nothing is cited.
C5_Witness ==
    /\ gen_pc = "returned"
    /\ num_chunks = 3
    /\ generated_text = WithTag(<<"BULLET", " ", "A">>, Tag(<<"9">>))
    /\ tailored_bullets = <<generated_text>>
    /\ cited_chunks = <<>>

\* C6: a call with no chunks, or with a job description that is empty or all
\* whitespace, ends in ValueError at once and never invokes the client.
C6_PreconditionFailsBeforeCall ==
    (num_chunks = 0 \/ \A i \in DOMAIN job_description :
                           job_description[i] \in Whitespace)
        => /\ gen_pc \in {"start", "ValueError"}
           /\ api_calls = 0
           /\ model_outcome = "none"

\* C6 witness: chunks were supplied, the job description is non-empty but all
\* whitespace, and the call has failed with ValueError.
C6_Witness ==
    /\ gen_pc = "ValueError"
    /\ num_chunks > 0
    /\ job_description # <<>>
    /\ api_calls = 0

\* C7: the client is invoked at most once per call; when that invocation
\* raises or returns empty content the call ends in RuntimeError with no
\* result and exactly one invocation made.
C7_AtMostOneCallNoRetry ==
    /\ api_calls <= 1
    /\ (\/ model_outcome = "raised"
        \/ (model_outcome = "returned" /\ generated_text = <<>>))
          => /\ gen_pc = "RuntimeError"
             /\ api_calls = 1
             /\ tailored_bullets = <<>>
             /\ cited_chunks = <<>>
    /\ gen_pc \in {"returned", "RuntimeError"} => api_calls = 1

\* C7 witness: the client returned empty content and the call failed.
C7_Witness ==
    /\ model_outcome = "returned"
    /\ generated_text = <<>>
    /\ gen_pc = "RuntimeError"
    /\ api_calls = 1

\* No statement can be parsed from the response: no bullet line carries a
\* citation tag and no line is longer than the floor of the fallback.
NothingParsable(response) ==
    \A line \in Range(StrippedLines(response)) :
        /\ ~(StartsWithBullet(line) /\ FindCitations(line) # <<>>)
        /\ Len(line) <= FallbackLineFloor

\* C26: a non-empty model response from which no statement can be parsed
\* makes rewrite_chunks fail; a successful result never has zero statements.
C26_UnparsableResponseFails ==
    /\ (/\ model_outcome = "returned"
        /\ generated_text # <<>>
        /\ NothingParsable(generated_text)) => gen_pc = "RuntimeError"
    /\ gen_pc = "returned" => tailored_bullets # <<>>

\* Some line of the response begins with a bullet marker.
HasMarkerLine(response) ==
    \E line \in Range(StrippedLines(response)) : StartsWithBullet(line)
\* The statements the line fallback makes of a response: every stripped line
\* longer than the floor, behind a bullet marker of its own.
ImplicitStatements(response) ==
    LET long == SelectSeq(StrippedLines(response),
                          LAMBDA line : Len(line) > FallbackLineFloor)
    IN [i \in DOMAIN long |-> <<"BULLET", " ">> \o long[i]]
\* The result is the one of the line fallback.
FallbackApplied ==
    /\ tailored_bullets = ImplicitStatements(generated_text)
    /\ all_cited_chunks = [i \in DOMAIN tailored_bullets |-> 0]

\* C28: the line fallback is applied if and only if no line of the response
\* begins with a bullet marker; the lines of a response with bullet-marker
\* lines are never re-emitted as implicit statements citing chunk 0.
C28_FallbackIffNoMarkerLine ==
    gen_pc = "returned" =>
        /\ ~HasMarkerLine(generated_text) => FallbackApplied
        /\ HasMarkerLine(generated_text) =>
              /\ \A i \in DOMAIN tailored_bullets :
                    tailored_bullets[i] \in Range(StrippedLines(generated_text))
              /\ (tailored_bullets # <<>> => ~FallbackApplied)

(***************************************************************************)
(* Claims about the Chunker, checked under SpecChunk.                      *)
(***************************************************************************)
\* The total number of words of a sequence of chunks.
RECURSIVE TotalWords(_)
TotalWords(cs) ==
    IF cs = <<>> THEN 0 ELSE WordCount(cs[1]) + TotalWords(Tail(cs))

\* The indices of the chunks a step appends.
NewChunks == (Len(chunks) + 1)..Len(chunks')

\* C8: every chunk emitted, on whichever path, has at least 10
\* whitespace-separated words.
C8_EveryChunkMeetsMinimum ==
    \A i \in DOMAIN chunks : WordCount(chunks[i]) >= MinChunkWords

\* C8 witness: a finished call that emitted at least two chunks and dropped
\* words of the text (a candidate below the minimum).
C8_Witness ==
    /\ chunk_pc = "done"
    /\ Len(chunks) >= 2
    /\ TotalWords(chunks) < WordCount(cleaned_text)

C10_Scenario1TwoChunks ==
    (chunk_pc = "done" /\ text = Scenario1Text
     /\ max_chunk_size = 50)
        => /\ chunks = <<ScenarioExperienceSection, ScenarioEducationSection>>
           /\ \A i \in DOMAIN chunks : WordCount(chunks[i]) >= MinChunkWords

\* C10 amended: scenario 1 with max_chunk_size = 50 yields exactly 1 chunk,
\* the EXPERIENCE section; the EDUCATION section is dropped.
C10_Scenario1OneChunk ==
    (chunk_pc = "done" /\ text = Scenario1Text /\ max_chunk_size = 50)
        => chunks = <<ScenarioExperienceSection>>

\* C10 witness: scenario 1 has been chunked and one chunk of 17 words was
\* returned; the EDUCATION section has 9 words.
C10_Witness ==
    /\ chunk_pc = "done"
    /\ text = Scenario1Text
    /\ max_chunk_size = 50
    /\ Len(chunks) = 1
    /\ WordCount(chunks[1]) = 17
    /\ WordCount(ScenarioEducationSection) = 9

\* The consecutive, non-overlapping windows of max words of the cleaned text,
\* each joined by single spaces, without the windows of fewer than 10 words.
WindowCount(n, max) == (n + max - 1) \div max
ExpectedWindows ==
    LET words == SplitWords(cleaned_text)
        n == Len(words)
        window(j) ==
            SubSeq(words, (j - 1) * max_chunk_size + 1,
                   IF j * max_chunk_size < n THEN j * max_chunk_size ELSE n)
        all == [j \in 1..WindowCount(n, max_chunk_size) |-> window(j)]
        kept == SelectSeq(all, LAMBDA w : Len(w) >= MinChunkWords)
    IN [j \in DOMAIN kept |-> Join(kept[j], <<" ">>)]

C30_BufferWithinMaxUnlessSingleSentence ==
    [][ /\ chunk_pc' = "sentences" =>
              \/ current_word_count' <= max_chunk_size'
              \/ Len(current_chunk') = 1
        /\ \A i \in NewChunks :
              /\ (chunk_pc = "sentences" /\ Len(current_chunk) >= 2) =>
                    WordCount(chunks'[i]) <= max_chunk_size
              /\ WordCount(chunks'[i]) > max_chunk_size =>
                    /\ chunk_pc = "sentences"
                    /\ Len(current_chunk) = 1
                    /\ WordCount(current_chunk[1]) > max_chunk_size
                    /\ chunks'[i] = current_chunk[1] ]_vars
\* The buffer holds two or more sentences, is exactly full, and a sentence is
\* still to come.
C30_Witness ==
    /\ chunk_pc = "sentences"
    /\ Len(current_chunk) >= 2
    /\ current_word_count = max_chunk_size
    /\ sentences # <<>>
    /\ WordCount(Strip(Head(sentences))) > 0

\* The words of a list of chunks, in order, each without the sentence
\* terminators that the sentence split removes.
Terminators == {".", "!", "?"}
BareWord(w) == SelectSeq(w, LAMBDA c : c \notin Terminators)
BareWords(s) ==
    SelectSeq([i \in DOMAIN SplitWords(s) |-> BareWord(SplitWords(s)[i])],
              LAMBDA w : w # <<>>)
RECURSIVE WordsOfChunks(_)
WordsOfChunks(cs) ==
    IF cs = <<>> THEN <<>> ELSE BareWords(cs[1]) \o WordsOfChunks(Tail(cs))

\* C25: chunking the joined chunks of a first chunking again, with the same
\* max_chunk_size, yields chunks with the same words in the same order (the
\* words compared without sentence punctuation): none is lost, none added.
C25_RechunkKeepsWords ==
    (chunk_pc = "done" /\ chunk_pass = 2) =>
        WordsOfChunks(chunks) = WordsOfChunks(first_chunks)

(***************************************************************************)
(* Claims about the Retriever, checked under SpecRetrieve.                 *)
(***************************************************************************)
\* The candidates of the call that returned: the rows in scope that the path
\* in effect could score, each with its distance under that path.
Candidates ==
    IF UsesPgvector(database_url)
    THEN PgSelect(resume_chunks, resume_id, resumes, jd_embedding)
    ELSE Range(WithDistances(DecodedRows(rows), similarity_metric, jd_embedding))
Eligible == {c \in Candidates : c.distance <= distance_threshold}
Ids(results) == [i \in DOMAIN results |-> results[i].chunk_id]

\* C12: on both paths the returned list has non-decreasing distances and
\* every distance is at most the distance_threshold of the call.
C12_SortedWithinThreshold ==
    retr_pc = "returned" =>
        /\ \A i \in 1..(Len(retrieval_results) - 1) :
              retrieval_results[i].distance <= retrieval_results[i + 1].distance
        /\ \A i \in DOMAIN retrieval_results :
              retrieval_results[i].distance <= distance_threshold

\* The in-process path returned two results of different distance that were
\* fetched in the opposite order, and dropped a candidate over the threshold.
C12_Witness ==
    /\ retr_pc = "returned"
    /\ ~UsesPgvector(database_url)
    /\ Len(retrieval_results) = 2
    /\ retrieval_results[1].distance < retrieval_results[2].distance
    /\ \E i, j \in DOMAIN rows :
          /\ i < j
          /\ rows[i].chunk_id = retrieval_results[2].chunk_id
          /\ rows[j].chunk_id = retrieval_results[1].chunk_id
    /\ \E c \in Candidates : c.distance > distance_threshold

\* C13: results of equal distance come in ascending chunk id order, and of
\* two eligible candidates of equal distance the one returned has the
\* smaller chunk id than the one cut off, whatever order the rows arrived in.
C13_TiesByChunkId ==
    retr_pc = "returned" =>
        /\ \A i \in 1..(Len(retrieval_results) - 1) :
              retrieval_results[i].distance = retrieval_results[i + 1].distance
                 => retrieval_results[i].chunk_id < retrieval_results[i + 1].chunk_id
        /\ \A r \in Range(retrieval_results) :
              \A c \in Eligible \ Range(retrieval_results) :
                 c.distance = r.distance => r.chunk_id < c.chunk_id

\* The chunk id sequences each path can return for the inputs of the call in
\* progress (one per order in which the storage layer may deliver the rows).
NativeIndexOutcomes ==
    {Ids(PgResults(SqlLimit(ordered, limit), distance_threshold)) :
        ordered \in OrderByDistance(PgSelect(resume_chunks, resume_id, resumes,
                                             jd_embedding))}
InProcessOutcomes ==
    {Ids(InProcessResults(fetched, similarity_metric, jd_embedding,
                          distance_threshold, limit)) :
        fetched \in Orderings(ScopeRows(resume_chunks, resume_id, resumes))}

\* C14: for the same stored vectors (all of them vectors), query vector,
\* supported metric, limit and threshold, the chunk id sequence one path
\* returned is one the other path returns too.
C14_BackendsRankIdentically ==
    ( /\ retr_pc = "returned"
      /\ similarity_metric \in {"cosine", "euclidean", "dot_product"}
      /\ \A i \in DOMAIN resume_chunks : resume_chunks[i].embedding # <<>> )
    => IF UsesPgvector(database_url)
       THEN Ids(retrieval_results) \in InProcessOutcomes
       ELSE Ids(retrieval_results) \in NativeIndexOutcomes

\* C15 as claimed: every returned distance is >= 0 under each supported metric.
C15_DistanceNonNegative ==
    ( /\ retr_pc = "returned"
      /\ similarity_metric \in {"cosine", "euclidean", "dot_product"} )
    => \A i \in DOMAIN retrieval_results : retrieval_results[i].distance >= 0

\* C15: every returned distance is >= 0 on the PostgreSQL path and, on the
\* in-process path, under the euclidean metric and (for unit vectors) the
\* cosine metric; under dot_product the distance is the negated dot product
\* of the stored vector and the query vector, whatever its sign.
C15_DistanceNonNegativeUnlessDotProduct ==
    retr_pc = "returned" =>
        \A i \in DOMAIN retrieval_results :
            IF ~UsesPgvector(database_url) /\ similarity_metric = "dot_product"
            THEN retrieval_results[i].distance =
                    0 - Dot(resume_chunks[retrieval_results[i].chunk_id].embedding,
                            jd_embedding)
            ELSE retrieval_results[i].distance >= 0

\* A cosine result at distance 0 (the query vector equals the stored vector)
\* and, in another call, a dot_product result of negative distance.
C15_Witness ==
    /\ retr_pc = "returned"
    /\ ~UsesPgvector(database_url)
    /\ retrieval_results # <<>>
    /\ \/ similarity_metric = "cosine" /\ retrieval_results[1].distance = 0
       \/ similarity_metric = "dot_product" /\ retrieval_results[1].distance < 0

\* C16: at most limit results are returned, all of them eligible; when more
\* than limit candidates are within the threshold, exactly limit are
\* returned and no candidate left out is closer than one returned.
C16_AtMostLimitSmallest ==
    retr_pc = "returned" =>
        /\ Len(retrieval_results) <= limit
        /\ Range(retrieval_results) \subseteq Eligible
        /\ Cardinality(Eligible) > limit =>
              /\ Len(retrieval_results) = limit
              /\ \A r \in Range(retrieval_results) :
                    \A c \in Eligible \ Range(retrieval_results) :
                       r.distance <= c.distance

\* Three candidates within the threshold, not all at the same distance, and
\* a limit below three.
C16_Witness ==
    /\ retr_pc = "returned"
    /\ Cardinality(Eligible) > limit
    /\ Len(retrieval_results) = limit
    /\ \E c \in Eligible \ Range(retrieval_results) :
          \E r \in Range(retrieval_results) : r.distance < c.distance

\* C17: a blank query ends the call with the ValueError itself, before any
\* embedder or database call.
C17_BlankQueryRaisesValueError ==
    (QueryIsBlank(retr_job_description) /\ retr_pc # "start") =>
        /\ retr_pc = "ValueError"
        /\ encode_calls = 0
        /\ execute_calls = 0

\* C18: the in-process path returns no list when the embedding of a fetched
\* row cannot be decoded.
C18_UndecodableRowFails ==
    (retr_pc = "returned" /\ ~UsesPgvector(database_url)) =>
        \A i \in DOMAIN rows : rows[i].embedding # <<>>

DimensionChecked == encode_calls = 1 /\ jd_embedding # <<>>
\* The check raised (its RuntimeError is re-wrapped by the except clause).
RejectedByDimensionCheck ==
    retr_pc = "RuntimeError" /\ retr_cause = "RuntimeError"

\* C23: the dimension check rejects exactly the query vectors whose length
\* differs from config.EMBEDDING_DIM, whatever dimension is configured: a
\* mismatch ends the call in failure without results, and a vector of the
\* configured length is never rejected.
C23_DimensionCheckUsesConfiguredDim ==
    DimensionChecked =>
        /\ RejectedByDimensionCheck <=> Len(jd_embedding) # embedding_dim
        /\ RejectedByDimensionCheck => retrieval_results = <<>>

(***************************************************************************)
(* Claims about ingest_resume, checked under SpecIngest.                   *)
(***************************************************************************)
\* C11: ingest_resume returns only when there is at least one chunk and the
\* embedder returned one vector per chunk (in every other case, the embedder
\* raising included, it raises); once it has raised, neither the tables nor
\* the session hold the resume row of the attempt or a chunk of it; the
\* Generator is never called.
C11_IngestAllOrNothing ==
    /\ ingest_pc = "returned" =>
          /\ chunks # <<>>
          /\ Len(embeddings) = Len(chunks)
    /\ ingest_pc = "raised" =>
          /\ new_resume_id # 0
          /\ new_resume_id \notin resumes \cup session_resumes
          /\ \A i \in DOMAIN resume_chunks :
                resume_chunks[i].resume_id # new_resume_id
          /\ session_chunks = <<>>
    /\ gen_pc = "idle" /\ api_calls = 0

\* The embedder returned one vector for two chunks, the call raised, and the
\* resume that was in the database before is still the only one.
C11_Witness ==
    /\ ingest_pc = "raised"
    /\ Len(chunks) = 2
    /\ Len(embeddings) = 1
    /\ resumes = {1}
    /\ new_resume_id = 2
    /\ Len(resume_chunks) = 1

\* The stored chunk rows of the resume the call created, in insertion order.
StoredChunksOfNew ==
    SelectSeq(resume_chunks, LAMBDA row : row.resume_id = new_resume_id)

\* C27: after ingest_resume returned resume id r for a text of k chunks, r is
\* positive, k >= 1, the store holds exactly k chunk rows of resume r, the
\* i-th with the i-th chunk and the i-th embedding, and
\* get_resume_stats(r).chunk_count is that stored count.
C27_StoredChunksMatchStats ==
    ingest_pc = "returned" =>
        /\ new_resume_id > 0
        /\ Len(chunks) >= 1
        /\ Len(StoredChunksOfNew) = Len(chunks)
        /\ \A i \in DOMAIN StoredChunksOfNew :
              /\ StoredChunksOfNew[i].chunk_text = chunks[i]
              /\ StoredChunksOfNew[i].embedding = embeddings[i]
        /\ ~ResumeStatsRaises(new_resume_id, resumes)
        /\ get_resume_stats(new_resume_id, resume_chunks).chunk_count
              = Len(StoredChunksOfNew)
\* A second resume was ingested in two chunks with different embeddings.
C27_Witness ==
    /\ ingest_pc = "returned"
    /\ new_resume_id = 2
    /\ Len(chunks) = 2
    /\ embeddings[1] # embeddings[2]
    /\ get_resume_stats(new_resume_id, resume_chunks).chunk_count = 2

(***************************************************************************)
(* Claims about tailor_resume, checked under SpecTailor.                   *)
(***************************************************************************)
\* C20: once retrieval has returned no chunk the run has failed with status
\* 400; once retrieval has raised the run has failed with status 500; in
\* both cases the Generator was not called.
C20_NoChunksIsNotBackendError ==
    /\ (tailor_pc # "retrieving" /\ retr_pc = "returned" /\ retrieval_results = <<>>)
          => /\ tailor_pc = "failed"
             /\ status_code = 400
             /\ gen_pc = "idle" /\ api_calls = 0
    /\ (tailor_pc # "retrieving" /\ retr_pc = "RuntimeError")
          => /\ tailor_pc = "failed"
             /\ status_code = 500
             /\ gen_pc = "idle" /\ api_calls = 0

\* A run that failed with 400: the resume exists, the table holds chunks of
\* it, and none of them is within the threshold.
C20_Witness ==
    /\ tailor_pc = "failed"
    /\ status_code = 400
    /\ retr_pc = "returned"
    /\ rows # <<>>
    /\ retrieval_results = <<>>

\* The steps a run of tailor_resume may take from one position to the next.
TailorOrder ==
    {<<"start", "retrieving">>, <<"start", "failed">>,
     <<"retrieving", "generating">>, <<"retrieving", "failed">>,
     <<"generating", "done">>, <<"generating", "failed">>}

\* What holds of a run at each position: the calls made so far, and why it
\* ended where it ended.
TailorPositionOk ==
    /\ encode_calls <= 1 /\ execute_calls <= 1 /\ api_calls <= 1
    /\ tailor_pc = "start" => retr_pc = "idle" /\ gen_pc = "idle"
    /\ tailor_pc = "retrieving" => retr_pc # "idle" /\ gen_pc = "idle"
    /\ tailor_pc = "generating" =>
          /\ request.resume_id \in resumes
          /\ retr_pc = "returned" /\ retrieval_results # <<>>
          /\ gen_pc # "idle"
    /\ tailor_pc = "done" =>
          /\ request.resume_id \in resumes
          /\ retr_pc = "returned" /\ retrieval_results # <<>>
          /\ gen_pc = "returned" /\ status_code = 200
    /\ tailor_pc = "failed" =>
          \/ /\ status_code = 404 /\ request.resume_id \notin resumes
             /\ retr_pc = "idle" /\ gen_pc = "idle"
          \/ /\ status_code = 500 /\ retr_pc = "RuntimeError" /\ gen_pc = "idle"
          \/ /\ status_code = 400 /\ retr_pc = "returned"
             /\ retrieval_results = <<>> /\ gen_pc = "idle"
          \/ /\ status_code = 500 /\ retr_pc = "returned"
             /\ gen_pc \in {"ValueError", "RuntimeError"}
    /\ status_code # 0 <=> tailor_pc \in {"done", "failed"}
    /\ request.resume_id \notin resumes => tailor_pc \in {"start", "failed"}

\* C21: a run moves only along source check, retrieval, generation,
\* response; retrieval and generation are each started at most once; a
\* failed or finished run takes no further step; a failure leaves the later
\* steps unexecuted and the 200 response comes only after rewrite_chunks
\* returned.
C21_TailorStepsInOrder ==
    [][ /\ tailor_pc' # tailor_pc => <<tailor_pc, tailor_pc'>> \in TailorOrder
        /\ (retr_pc' = "start" /\ retr_pc # "start") => retr_pc = "idle"
        /\ (gen_pc' = "start" /\ gen_pc # "start") => gen_pc = "idle"
        /\ tailor_pc \in {"done", "failed"} => UNCHANGED vars
        /\ TailorPositionOk' ]_vars

\* A run that went through all four steps and answered 200.
C21_Witness ==
    /\ tailor_pc = "done"
    /\ status_code = 200
    /\ encode_calls = 1 /\ execute_calls = 1 /\ api_calls = 1
    /\ tailored_bullets # <<>>

(***************************************************************************)
(* Claims about get_generator, checked under SpecSingleton.                *)
(***************************************************************************)
Returned == {t \in Threads : thread_pc[t] = "returned"}

\* C22: however the first calls of get_generator interleave, ResumeGenerator
\* is constructed at most once and every caller that returns has received
\* the same instance.
C22_ConstructedOnceSameInstance ==
    /\ constructions <= 1
    /\ \A t, u \in Returned : thread_result[t] = thread_result[u]

(***************************************************************************)
(* Claims about a query running beside an ingestion, checked under         *)
(* SpecConcurrent.                                                         *)
(***************************************************************************)
\* The stored rows of the requested resume.
RequestedRows == ScopeRows(resume_chunks, resume_id, resumes)
\* The result lists the query returns on the rows of the requested resume
\* alone (the order of delivery and of tied rows is the storage layer's).
IsolatedOutcomes ==
    IF UsesPgvector(database_url)
    THEN {PgResults(SqlLimit(ordered, limit), distance_threshold) :
            ordered \in OrderByDistance(
                {[chunk_id |-> r.chunk_id, resume_id |-> r.resume_id,
                  distance |-> PgvectorDistance(r.embedding, jd_embedding)] :
                    r \in RequestedRows})}
    ELSE {InProcessResults(fetched, similarity_metric, jd_embedding,
                           distance_threshold, limit) :
            fetched \in Orderings(RequestedRows)}

\* C24: a query scoped to an existing resume returns what it returns on that
\* resume's rows alone, whether or not an ingestion of a new resume runs
\* beside it and however their steps interleave: no step changes the rows of
\* the requested resume, the returned list is one the query yields on those
\* rows, and every returned chunk belongs to the requested resume.
C24_QueryIndependentOfIngestion ==
    [][ /\ RequestedRows' = RequestedRows
        /\ (retr_pc' = "returned" /\ retr_pc # "returned") =>
              /\ retrieval_results' \in IsolatedOutcomes'
              /\ \A i \in DOMAIN retrieval_results' :
                    retrieval_results'[i].resume_id = resume_id' ]_vars
\* The new resume was committed with its chunks and the query returned
\* chunks of the requested resume.
C24_Witness ==
    /\ ingest_pc = "returned"
    /\ \E i \in DOMAIN resume_chunks : resume_chunks[i].resume_id = new_resume_id
    /\ retr_pc = "returned"
    /\ retrieval_results # <<>>
    /\ rows # <<>>
    /\ \A i \in DOMAIN rows : rows[i].resume_id = resume_id

====
